---- MODULE Spec2Model ----
(***************************************************************************)
(* Hysteresis tracing of the Canny edge detector (src/src/edges.rs), in    *)
(* its eager form (canny / hysteresis) and its lazy form (CannyPixels),    *)
(* non_maximum_suppression, and the rectangles of src/src/rect.rs.         *)
(*                                                                         *)
(* A raster is a record [w, h, pix] with pix a function on the coordinates *)
(* <<x, y>>, 0 <= x < w, 0 <= y < h.  The f32 magnitudes and thresholds    *)
(* are only ever compared with >=, so they are represented by small        *)
(* naturals with the same order.  Gaussian blur and the Sobel operators    *)
(* are external: the model starts from the raster that                     *)
(* non_maximum_suppression hands to the trace, whose outer ring is 0.      *)
(* The image crate is external too: its ImageBuffer either checks the      *)
(* coordinates of get_pixel and put_pixel or only the index they give, and *)
(* the build is of one kind or the other.                                  *)
(***************************************************************************)
EXTENDS Integers, Sequences, FiniteSets, TLC

VARIABLES input, low_threshold, high_threshold, overflow_checks, container,
          eager, lazy, mono, nms, rects

vars == <<input, low_threshold, high_threshold, overflow_checks, container,
          eager, lazy, mono, nms, rects>>

(* ------------------------------ bounds --------------------------------- *)

\* Largest raster width and height tried.
MaxW == 4
MaxH == 4
\* Magnitudes and thresholds range over 0..MaxMag.
MaxMag == 2
\* Most interior pixels of non-zero magnitude in a raster.
MaxLit == 2
\* Requests made to a lazy producer after it first reported exhaustion.
MaxExtra == 1
\* Largest width and height of the rasters non_maximum_suppression is tried on.
MaxNmsDim == 3
\* Rectangle corners range over -MaxCoord..MaxCoord, sides over 0..MaxSide.
MaxCoord == 1
MaxSide == 2

(* --------------------------- program constants ------------------------- *)

\* i32::MAX, and i32::MIN below it.
I32Max == 2147483647
\* Luma::white() and Luma::black() for u8 samples.
max_brightness == 255
min_brightness == 0

(* ------------------------------ rasters -------------------------------- *)

Coords(w, h) == (0 .. w - 1) \X (0 .. h - 1)

Interior(w, h) == (1 .. w - 2) \X (1 .. h - 2)

Mags == 0 .. MaxMag

\* The rasters non_maximum_suppression can return: 0 on the outer ring
\* (its `out` starts as all 0.0 and only interior pixels are written).
SuppressedRasters(w, h) ==
    { [w |-> w, h |-> h,
       pix |-> [p \in Coords(w, h) |-> IF p \in Interior(w, h) THEN f[p] ELSE 0]] :
      f \in { g \in [Interior(w, h) -> Mags] :
                 Cardinality({ p \in Interior(w, h) : g[p] # 0 }) <= MaxLit } }

\* ImageBuffer::from_pixel(width, height, v)
from_pixel(w, h, v) == [p \in Coords(w, h) |-> v]

(* ----------------------------- u32 values ------------------------------ *)

\* TLC integers stop at 2^31 - 1.  A u32 value v is held as v itself when
\* v < 2^31 and as v - 2^32 when v >= 2^31: -1 is 4294967295 (u32::MAX), -2
\* is 4294967294.  With this the wrapping +, - and * of u32 are the integer
\* ones, and only comparisons have to tell the two halves apart.

\* a < b on u32.
ULess(a, b) == IF (a < 0) = (b < 0) THEN a < b ELSE b < 0

\* n - 1 on u32 without overflow checks: 0 wraps to u32::MAX, held as -1.
Dec(n) == n - 1

\* n - 1 panics on u32 with overflow checks when n = 0.
DecOverflows(n, checks) == checks /\ n = 0

\* Whether the range 1..n-1 is empty.
RangeEmpty(n) == ~ULess(1, Dec(n))

\* The top 16 bits of the product of two 16-bit values.
MulHigh16(a, b) == ((a \div 256) * b + ((a % 256) * b) \div 256) \div 256

\* Whether a * b on u32 is 2^32 or more.  With an operand of 2^31 or more
\* (held negative) it is as soon as the other is 2 or more.  For a, b <
\* 2^31, a = ah 2^16 + al and b = bh 2^16 + bl, the product is ah bh 2^32 +
\* (ah bl + al bh) 2^16 + al bl.
MulOverflows(a, b) ==
    LET ah == a \div 65536
        al == a % 65536
        bh == b \div 65536
        bl == b % 65536
    IN  IF a < 0 THEN ULess(1, b)
        ELSE IF b < 0 THEN ULess(1, a)
        ELSE \/ (ah > 0 /\ bh > 0)
             \/ ah * bl + al * bh + MulHigh16(al, bl) >= 65536

\* n / 2 on u32: for n of 2^31 or more, held as n - 2^32, it is the half of
\* the held value and 2^31.
HalfU32(n) == IF n >= 0 THEN n \div 2 ELSE ((n \div 2) + I32Max) + 1

(* ------------------------- pixel containers ---------------------------- *)

\* The coordinate test of an ImageBuffer whose get_pixel / put_pixel check
\* x < width and y < height before indexing.
InBounds(img, q) == ULess(q[1], img.w) /\ ULess(q[2], img.h)

\* The index y * width + x that a get_pixel / put_pixel without a coordinate
\* test takes into the sample vector (u32; negative here is 2^31 or more).
LinearIndex(img, q) == q[2] * img.w + q[1]

\* No sample: the access panics.
NoPixel == << >>

\* The sample that get_pixel(q) reads and put_pixel(q) writes.  The image
\* crate is not part of the sources and its releases differ: a "checked"
\* ImageBuffer panics on a coordinate outside the raster, a "linear" one only
\* has the slice bound on the linear index, so that a coordinate outside the
\* raster reaches the sample with the same index.
PixelAt(img, q, kind) ==
    IF kind = "checked"
    THEN IF InBounds(img, q) THEN q ELSE NoPixel
    ELSE IF 0 <= LinearIndex(img, q) /\ LinearIndex(img, q) < img.w * img.h
         THEN << LinearIndex(img, q) % img.w, LinearIndex(img, q) \div img.w >>
    ELSE NoPixel

\* The two kinds of ImageBuffer a build can link.
ImageKinds == {"checked", "linear"}

\* The kinds still possible for a build of which c is known: the kind shows
\* only at the first access outside the raster, and is "undetermined" until
\* then.
Kinds(c) == IF c = "undetermined" THEN ImageKinds ELSE {c}

(* -------------------------- u32 loop ranges ---------------------------- *)

\* The fault, if any, of `for y in 1..h-1 { for x in 1..w-1 { pixel(x,y) } }`
\* as non_maximum_suppression runs it on a w x h raster.  The inner bound is
\* evaluated only when the outer range is not empty.
LoopFault(w, h, checks) ==
    IF DecOverflows(h, checks) THEN "overflow"
    ELSE IF RangeEmpty(h) THEN "none"
    ELSE IF DecOverflows(w, checks) THEN "overflow"
    ELSE IF RangeEmpty(w) THEN "none"
    ELSE IF ULess(1, w) /\ ULess(1, h) THEN "none"
    ELSE "bounds"

\* The scan taken over the whole raster, outer ring included.
Indices_WholeRaster(w, h) ==
    [i \in 1 .. w * h |-> << (i - 1) % w, (i - 1) \div w >>]

\* The coordinates the two nested ranges visit, row-major, once LoopFault is
\* "none": either both dimensions are >= 3 or some range visits nothing.
Indices(w, h) ==
    IF RangeEmpty(w) \/ RangeEmpty(h) \/ w = 0 \/ h = 0 THEN << >>
    ELSE [i \in 1 .. (w - 2) * (h - 2) |->
            << 1 + ((i - 1) % (w - 2)), 1 + ((i - 1) \div (w - 2)) >>]

(* ------------------------- shared trace rules -------------------------- *)

\* The seed comparison turned round.
IsSeed_Flipped(inp, outv, high) == inp <= high /\ outv = min_brightness

\* inp_pix[0] >= high_thresh && out_pix[0] == 0
IsSeed(inp, outv, high) == inp >= high /\ outv = min_brightness

\* in_neighbor[0] >= low_thresh && out_neighbor[0] == 0
IsLinked(inp, outv, low) == inp >= low /\ outv = min_brightness

\* Building neighbor_indices panics on nx - 1 or ny - 1 under overflow checks.
NeighborOverflows(p, checks) == DecOverflows(p[1], checks) \/ DecOverflows(p[2], checks)

\* neighbor_indices with the north and north-east neighbours added.
neighbor_indices_WithNorth(p) ==
    << << p[1] + 1, p[2] >>,
       << p[1] + 1, p[2] + 1 >>,
       << p[1], p[2] + 1 >>,
       << Dec(p[1]), Dec(p[2]) >>,
       << Dec(p[1]), p[2] >>,
       << Dec(p[1]), p[2] + 1 >>,
       << p[1], Dec(p[2]) >>,
       << p[1] + 1, Dec(p[2]) >> >>

\* neighbor_indices with its second entry a copy of the first.
neighbor_indices_Repeated(p) ==
    << << p[1] + 1, p[2] >>,
       << p[1] + 1, p[2] >>,
       << p[1], p[2] + 1 >>,
       << Dec(p[1]), Dec(p[2]) >>,
       << Dec(p[1]), p[2] >>,
       << Dec(p[1]), p[2] + 1 >> >>

\* The six neighbor_indices of a popped pixel, in array order.
neighbor_indices(p) ==
    << << p[1] + 1, p[2] >>,
       << p[1] + 1, p[2] + 1 >>,
       << p[1], p[2] + 1 >>,
       << Dec(p[1]), Dec(p[2]) >>,
       << Dec(p[1]), p[2] >>,
       << Dec(p[1]), p[2] + 1 >> >>

\* A neighbour without a sample passed over instead of faulting.
NeighborOutcome_Clamped(img, outimg, a, low) ==
    IF a = NoPixel THEN "skip"
    ELSE IF IsLinked(img.pix[a], outimg[a], low) THEN "mark"
    ELSE "skip"

\* What the body of `for neighbor_idx in &neighbor_indices` does with one
\* neighbour whose sample is a (PixelAt of the neighbour): get_pixel panics
\* when there is none; otherwise the neighbour is marked and pushed when it
\* is linked, and left alone when it is not.
NeighborOutcome(img, outimg, a, low) ==
    IF a = NoPixel THEN "panic"
    ELSE IF IsLinked(img.pix[a], outimg[a], low) THEN "mark"
    ELSE "skip"

\* Vec::pop on a non-empty vector: the item removed and what is left.
Top(v) == v[Len(v)]
Rest(v) == SubSeq(v, 1, Len(v) - 1)

(* ------------------------------ eager form ----------------------------- *)

\* The eager call before canny is entered.  out, edges and the scan cursor
\* i (an index into Indices) are the locals of hysteresis, nbrs the
\* neighbor_indices of the pixel popped last; comps records, seed by seed,
\* the samples in the order put_pixel marks them.
EagerIdle ==
    [pc |-> "idle", fault |-> "none", out |-> << >>, edges |-> << >>,
     i |-> 0, nbrs |-> << >>, comps |-> << >>]

EagerPanic(e, f) == [e EXCEPT !.pc = "panic", !.fault = f]

\* out.put_pixel(q, max_brightness); edges.push(q), with a the sample the
\* coordinate q reaches.
EagerMark(e, q, a) ==
    [e EXCEPT !.out[a] = max_brightness,
              !.edges = Append(@, q),
              !.comps[Len(e.comps)] = Append(@, a)]

\* The assertion with a strict comparison.
ThresholdsAccepted_Strict(low, high) == high > low

\* assert!(high_threshold >= low_threshold)
ThresholdsAccepted(low, high) == high >= low

\* hysteresis up to its outer loop: out all black, and an empty stack whose
\* capacity input.width() * input.height() / 2 is computed on u32.
HysteresisStart(e, img, checks) ==
    IF checks /\ MulOverflows(img.w, img.h) THEN EagerPanic(e, "overflow")
    ELSE [e EXCEPT !.pc = "scan", !.out = from_pixel(img.w, img.h, min_brightness),
                   !.edges = << >>, !.i = 1]

\* canny up to the call of hysteresis: the assertion, then the loops of
\* non_maximum_suppression over a raster of these dimensions.
canny(e, img, low, high, checks) ==
    IF ~ThresholdsAccepted(low, high) THEN EagerPanic(e, "assert")
    ELSE IF LoopFault(img.w, img.h, checks) # "none"
         THEN EagerPanic(e, LoopFault(img.w, img.h, checks))
    ELSE HysteresisStart(e, img, checks)

\* The scan loops of hysteresis from pixel i on, up to the push of the next
\* seed or the end of the scan.
RECURSIVE HysteresisScan(_, _, _)
HysteresisScan(e, img, high) ==
    IF e.i > Len(Indices(img.w, img.h)) THEN [e EXCEPT !.pc = "done"]
    ELSE LET p == Indices(img.w, img.h)[e.i] IN
         IF IsSeed(img.pix[p], e.out[p], high)
         THEN [EagerMark([e EXCEPT !.comps = Append(@, << >>)], p, p) EXCEPT !.pc = "pop"]
         ELSE HysteresisScan([e EXCEPT !.i = @ + 1], img, high)

\* `for neighbor_idx in &neighbor_indices` from the k-th neighbour on.
RECURSIVE HysteresisNeighbors(_, _, _, _, _)
HysteresisNeighbors(e, img, low, k, kind) ==
    IF k > Len(e.nbrs) THEN e
    ELSE LET a == PixelAt(img, e.nbrs[k], kind)
             o == NeighborOutcome(img, e.out, a, low)
         IN  IF o = "panic" THEN EagerPanic(e, "bounds")
             ELSE IF o = "mark"
                  THEN HysteresisNeighbors(EagerMark(e, e.nbrs[k], a), img, low, k + 1, kind)
             ELSE HysteresisNeighbors(e, img, low, k + 1, kind)

\* One iteration of `while !edges.is_empty()`: pop a pixel, build its
\* neighbor_indices, visit them; with the stack empty the scan goes on.
HysteresisPop(e, img, low, checks, kind) ==
    IF NeighborOverflows(Top(e.edges), checks)
    THEN EagerPanic([e EXCEPT !.edges = Rest(@)], "overflow")
    ELSE LET popped == [e EXCEPT !.edges = Rest(@),
                                 !.nbrs = neighbor_indices(Top(e.edges))]
             after == HysteresisNeighbors(popped, img, low, 1, kind)
         IN  IF after.pc = "panic" THEN after
             ELSE IF after.edges = << >> THEN [after EXCEPT !.pc = "scan", !.i = @ + 1]
             ELSE after

\* The step hysteresis takes from a state in which it is running.
HysteresisStep(e, img, low, high, checks, kind) ==
    IF e.pc = "scan" THEN HysteresisScan(e, img, high)
    ELSE HysteresisPop(e, img, low, checks, kind)

EagerRunning(e) == e.pc \in {"scan", "pop"}

\* hysteresis as a function: the state in which it returns or panics.
RECURSIVE HysteresisRun(_, _, _, _, _, _)
HysteresisRun(e, img, low, high, checks, kind) ==
    IF EagerRunning(e)
    THEN HysteresisRun(HysteresisStep(e, img, low, high, checks, kind),
                       img, low, high, checks, kind)
    ELSE e

hysteresis(img, low, high, checks, kind) ==
    HysteresisRun(HysteresisStart(EagerIdle, img, checks), img, low, high, checks, kind)

(* ------------------------------ lazy form ------------------------------ *)

\* No producer yet.  working_image, pixels and the cursor idx into indices
\* are the fields of CannyPixels; yielded records the coordinates returned
\* so far, last the result of the latest request ("some" or "none") and
\* after the number of requests made since the first "none".
LazyAbsent ==
    [status |-> "absent", fault |-> "none", working_image |-> << >>,
     pixels |-> << >>, idx |-> 0, yielded |-> << >>, last |-> "start", after |-> 0]

LazyPanic(l, f) == [l EXCEPT !.status = "panic", !.fault = f]

\* CannyPixels::new: the assertion, non_maximum_suppression, the fields.
CannyPixelsNew(l, img, low, high, checks) ==
    IF ~ThresholdsAccepted(low, high) THEN LazyPanic(l, "assert")
    ELSE IF LoopFault(img.w, img.h, checks) # "none"
         THEN LazyPanic(l, LoopFault(img.w, img.h, checks))
    ELSE [l EXCEPT !.status = "ready",
                   !.working_image = from_pixel(img.w, img.h, min_brightness),
                   !.pixels = << >>, !.idx = 1]

\* A mark that leaves self.pixels alone.
LazyMark_NoPixelsPush(t, q, a) ==
    [t EXCEPT !.working_image[a] = max_brightness,
              !.edges = Append(@, q)]

\* A mark that leaves the local stack edges alone.
LazyMark_NoEdgesPush(t, q, a) ==
    [t EXCEPT !.working_image[a] = max_brightness,
              !.pixels = Append(@, q)]

\* The trace state inside one request: the producer's working_image and
\* pixels, and the local stack edges.
\* working_image.put_pixel(q, max_brightness); pixels.push(q); edges.push(q),
\* with a the sample the coordinate q reaches.
LazyMark(t, q, a) ==
    [t EXCEPT !.working_image[a] = max_brightness,
              !.pixels = Append(@, q),
              !.edges = Append(@, q)]

\* `for neighbor_idx in &neighbor_indices` from the k-th neighbour on.
RECURSIVE LazyNeighbors(_, _, _, _, _, _)
LazyNeighbors(t, img, low, nbrs, k, kind) ==
    IF k > Len(nbrs) THEN t
    ELSE LET a == PixelAt(img, nbrs[k], kind)
             o == NeighborOutcome(img, t.working_image, a, low)
         IN  IF o = "panic" THEN [t EXCEPT !.fault = "bounds"]
             ELSE IF o = "mark"
                  THEN LazyNeighbors(LazyMark(t, nbrs[k], a), img, low, nbrs, k + 1, kind)
             ELSE LazyNeighbors(t, img, low, nbrs, k + 1, kind)

\* `while !edges.is_empty()` inside next.
RECURSIVE LazyTrack(_, _, _, _, _)
LazyTrack(t, img, low, checks, kind) ==
    IF t.fault # "none" \/ t.edges = << >> THEN t
    ELSE IF NeighborOverflows(Top(t.edges), checks)
         THEN [t EXCEPT !.edges = Rest(@), !.fault = "overflow"]
    ELSE LazyTrack(LazyNeighbors([t EXCEPT !.edges = Rest(@)], img, low,
                                 neighbor_indices(Top(t.edges)), 1, kind),
                   img, low, checks, kind)

\* The count of requests made since the first None, after one more request.
Requested(l) == IF l.last = "none" \/ l.after > 0 THEN l.after + 1 ELSE l.after

\* A coordinate handed out and left in the buffer.
LazyYield_Peek(l) ==
    [l EXCEPT !.yielded = Append(@, Top(l.pixels)),
              !.last = "some", !.after = Requested(l)]

\* self.pixels.pop() handed to the caller.
LazyYield(l) ==
    [l EXCEPT !.pixels = Rest(@), !.yielded = Append(@, Top(l.pixels)),
              !.last = "some", !.after = Requested(l)]

\* The None that next returns.
LazyExhausted(l) == [l EXCEPT !.last = "none", !.after = Requested(l)]

\* `for (x, y) in &mut self.indices` inside next, entered with pixels empty.
RECURSIVE LazyScan(_, _, _, _, _, _)
LazyScan(l, img, low, high, checks, kind) ==
    IF l.idx > Len(Indices(img.w, img.h)) THEN LazyExhausted(l)
    ELSE LET p == Indices(img.w, img.h)[l.idx]
             taken == [l EXCEPT !.idx = @ + 1]
             t0 == [working_image |-> l.working_image, pixels |-> l.pixels,
                    edges |-> << >>, fault |-> "none"]
             t == IF IsSeed(img.pix[p], l.working_image[p], high)
                  THEN LazyTrack(LazyMark(t0, p, p), img, low, checks, kind)
                  ELSE t0
             after == [taken EXCEPT !.working_image = t.working_image,
                                    !.pixels = t.pixels]
         IN  IF t.fault # "none" THEN LazyPanic(after, t.fault)
             ELSE IF after.pixels # << >> THEN LazyYield(after)
             ELSE LazyScan(after, img, low, high, checks, kind)

\* CannyPixels::next, one whole request.
CannyPixelsNext(l, img, low, high, checks, kind) ==
    IF l.pixels # << >> THEN LazyYield(l)
    ELSE LazyScan(l, img, low, high, checks, kind)

(* --------------------- threshold monotonicity runs --------------------- *)

\* A second, tighter threshold pair (low2, high2) for the same raster, and
\* the two states in which hysteresis ends: r1 under (low_threshold,
\* high_threshold), r2 under (low2, high2).
MonoIdle == [pc |-> "idle", low2 |-> 0, high2 |-> 0, r1 |-> EagerIdle, r2 |-> EagerIdle]

(* ----------------------- non-maximum suppression ----------------------- *)

\* The gradient pairs (gx, gy) tried at a pixel of non-zero gradient: at
\* 0, 26.6, 108.4 and 153.4 degrees once brought into [0, 180), and one at
\* 22.49998 degrees, which f32 can round to 22.5.
Gradients == { <<1, 0>>, <<-2, -1>>, <<1, -3>>, <<2, -1>>, <<-985, -408>> }

\* The sets of at most MaxLit pixels, on the outer ring or inside, that have
\* a non-zero gradient.
LitSets(w, h) == { T \in SUBSET Coords(w, h) : Cardinality(T) <= MaxLit }

\* The rasters gx and gy with the gradients gr on the pixels of its domain
\* and (0, 0) elsewhere.
GradientRasters(w, h, gr) ==
    [gx |-> [p \in Coords(w, h) |-> IF p \in DOMAIN gr THEN gr[p][1] ELSE 0],
     gy |-> [p \in Coords(w, h) |-> IF p \in DOMAIN gr THEN gr[p][2] ELSE 0]]

Abs(n) == IF n < 0 THEN -n ELSE n

\* A magnitude is an f32 that is not negative, held as its bit pattern:
\* (exponent + 127) 2^23 + (mantissa - 2^23) for the value mantissa *
\* 2^(exponent - 23) with 2^23 <= mantissa < 2^24, and 0 for 0.0.  The
\* order of these f32 values is the order of their bit patterns.
F32Fraction == 8388608
F32Bias == 127

\* The integer part of the square root of s < 2^31, found bit by bit from
\* the bit b down.
RECURSIVE IntegerRoot(_, _, _)
IntegerRoot(s, r, b) ==
    IF b = 0 THEN r
    ELSE IF r + b <= 46340 /\ (r + b) * (r + b) <= s
         THEN IntegerRoot(s, r + b, b \div 2)
    ELSE IntegerRoot(s, r, b \div 2)

\* The exponent of n >= 1: the e with 2^e <= n < 2^(e + 1).
RECURSIVE Exponent(_)
Exponent(n) == IF n < 2 THEN 0 ELSE 1 + Exponent(n \div 2)

\* k more binary digits of a square root: from r, the integer part of the
\* root of some t, and rem = t - r^2, the integer part of the root of
\* t 4^k and what is left of t 4^k under its square.
RECURSIVE RootDigits(_, _, _)
RootDigits(r, rem, k) ==
    IF k = 0 THEN << r, rem >>
    ELSE IF 4 * rem >= 4 * r + 1
         THEN RootDigits(2 * r + 1, 4 * rem - (4 * r + 1), k - 1)
    ELSE RootDigits(2 * r, 4 * rem, k - 1)

\* The f32 nearest to the square root of s, 1 <= s < 2^31: the root to 25
\* binary digits, rounded to 24 with ties to even.
RootF32(s) ==
    LET r == IntegerRoot(s, 0, 32768)
        e == Exponent(r)
        digits == RootDigits(r, s - r * r, 24 - e)
        mantissa == digits[1] \div 2
        up == digits[1] % 2 = 1 /\ (digits[2] # 0 \/ mantissa % 2 = 1)
    IN  (e + F32Bias) * F32Fraction + ((IF up THEN mantissa + 1 ELSE mantissa) - F32Fraction)

\* (*h as f32).hypot(*v as f32) for i16 h and v: both convert exactly, and
\* hypot gives the f32 nearest to the root of h^2 + v^2.  For h = v = -32768
\* the sum of squares is 2^31; the result is twice that for the halves.
RECURSIVE hypot(_, _)
hypot(h, v) ==
    IF h = 0 /\ v = 0 THEN 0
    ELSE IF Abs(h) = 32768 /\ Abs(v) = 32768
         THEN hypot(h \div 2, v \div 2) + F32Fraction
    ELSE RootF32(h * h + v * v)

\* g: the magnitude of the gradient at every pixel, as an image.
MagnitudeRaster(w, h, gx, gy) ==
    [w |-> w, h |-> h, pix |-> [p \in Coords(w, h) |-> hypot(gx[p], gy[p])]]

\* The gradients the bucket rule below is defined for: up to here the
\* squares it takes stay below 2^31.
MaxGradient == 23170

\* (a + b)^2 - 2 a^2 for a, b >= 0: negative exactly when b < (sqrt 2 - 1) a,
\* that is when the direction (a, b) is less than 22.5 degrees from (a, 0).
\* It is 0 only for a = b = 0.
AxisGap(a, b) == (a + b) * (a + b) - 2 * a * a

\* The angle is computed on f32: atan2, the product with RADIANS_TO_DEGREES
\* and the sum with 180.0 are each rounded, and atan2 as the platform's libm
\* rounds it.  A direction with gap d from a bucket limit is 17.3 |d| / a^2
\* degrees from it; RoundingBand is 17.3 / 0.0000346, two f32 steps at
\* 157.5 degrees.
RoundingBand == 500000

\* Whether the direction with gap d is so close to a bucket limit that the
\* rounding decides on which side of it the angle is found.
NearLimit(d, a) == a > 0 /\ Abs(d) <= (a * a - 1) \div RoundingBand

\* atan2(y_gradient, x_gradient) in degrees, brought into [0, 180) and
\* clamped to 0, 45, 90 or 135: the clamped angles a build can find for one
\* gradient.  The exact angle is below 22.5 or at least 157.5 when
\* |gy| < (sqrt 2 - 1) |gx|, in [67.5, 112.5) when |gx| < (sqrt 2 - 1) |gy|,
\* and between the two the signs tell 45 from 135; near a limit the clamped
\* angle is that of either side.
clamped_angle(x_gradient, y_gradient) ==
    LET ax == Abs(x_gradient)
        ay == Abs(y_gradient)
        diagonal == IF (x_gradient > 0) = (y_gradient > 0) THEN 45 ELSE 135
    IN  CASE ax <= MaxGradient /\ ay <= MaxGradient ->
              IF ay = 0 THEN {0}
              ELSE IF NearLimit(AxisGap(ax, ay), ax) THEN {0, diagonal}
              ELSE IF NearLimit(AxisGap(ay, ax), ay) THEN {90, diagonal}
              ELSE IF AxisGap(ax, ay) < 0 THEN {0}
              ELSE IF AxisGap(ay, ax) < 0 THEN {90}
              ELSE {diagonal}

\* (cmp1, cmp2): the coordinates of the two perpendicular neighbours.
perpendicular_neighbors(angle, p) ==
    CASE angle = 0 -> << << p[1] - 1, p[2] >>, << p[1] + 1, p[2] >> >>
      [] angle = 45 -> << << p[1] + 1, p[2] + 1 >>, << p[1] - 1, p[2] - 1 >> >>
      [] angle = 90 -> << << p[1], p[2] - 1 >>, << p[1], p[2] + 1 >> >>
      [] angle = 135 -> << << p[1] - 1, p[2] + 1 >>, << p[1] + 1, p[2] - 1 >> >>

\* A pixel suppressed also when it ties with a neighbour.
IsSuppressed_OnTie(pixel, cmp1, cmp2) == pixel <= cmp1 \/ pixel <= cmp2

\* pixel[0] < cmp1[0] || pixel[0] < cmp2[0]
IsSuppressed(pixel, cmp1, cmp2) == pixel < cmp1 \/ pixel < cmp2

\* The body of the loops of non_maximum_suppression past the clamping: the
\* value written to out at the interior pixel p with clamped angle `angle`.
SuppressedPixel(g, angle, p) ==
    LET cmp == perpendicular_neighbors(angle, p)
    IN  IF IsSuppressed(g.pix[p], g.pix[cmp[1]], g.pix[cmp[2]]) THEN 0
        ELSE g.pix[p]

\* The pixels the two nested ranges visit.
LoopPixels(w, h) == { Indices(w, h)[i] : i \in 1 .. Len(Indices(w, h)) }

\* The clamped angles of one run over the pixels the loops visit: at each
\* pixel one of those a build can find.
ClampedAngles(g, gx, gy) ==
    LET pixels == LoopPixels(g.w, g.h)
        open == { p \in pixels : Cardinality(clamped_angle(gx[p], gy[p])) > 1 }
        Least(S) == CHOOSE a \in S : \A b \in S : a <= b
    IN  { [p \in pixels |->
             IF p \in up THEN CHOOSE a \in clamped_angle(gx[p], gy[p]) :
                                 a # Least(clamped_angle(gx[p], gy[p]))
             ELSE Least(clamped_angle(gx[p], gy[p]))] :
          up \in SUBSET open }

\* non_maximum_suppression on a raster its loops run over without a fault,
\* with the clamped angles `angle` found in the run: out starts as 0.0
\* everywhere and the loops write the pixels they visit.
non_maximum_suppression(g, angle) ==
    [p \in Coords(g.w, g.h) |->
        IF p \in DOMAIN angle THEN SuppressedPixel(g, angle[p], p) ELSE 0]

\* No call of non_maximum_suppression yet.  angle holds the clamped angle
\* found at each pixel visited.
NmsIdle ==
    [pc |-> "idle", g |-> << >>, gx |-> << >>, gy |-> << >>, angle |-> << >>,
     out |-> << >>]

(* ----------------------------- rectangles ------------------------------ *)

\* Option<Rect>: None and Some(r).
None == << >>
Some(r) == << r >>

\* Rect::at(x, y)
at(x, y) == [left |-> x, top |-> y]

\* The assertions of of_size: width > 0 and height > 0.
of_size_accepts(width, height) == ULess(0, width) /\ ULess(0, height)

\* RectPosition::of_size once its assertions have passed.
of_size(position, width, height) ==
    [left |-> position.left, top |-> position.top, width |-> width, height |-> height]

\* i32::MIN
I32Min == -I32Max - 1

\* a + b and a - b on i32: whether the exact result leaves the i32 range,
\* which panics under overflow checks, and the result wrapped into the range,
\* which a build without them computes.  No intermediate value leaves the
\* range either.
add_overflows(a, b) == IF b >= 0 THEN a > I32Max - b ELSE a < I32Min - b

wrapping_add(a, b) ==
    IF ~add_overflows(a, b) THEN a + b
    ELSE IF b >= 0 THEN (a - I32Max - 1) + (b - I32Max - 1)
    ELSE (a + I32Max + 1) + (b + I32Max + 1)

sub_overflows(a, b) == IF b >= 0 THEN a < I32Min + b ELSE a > I32Max + b

wrapping_sub(a, b) ==
    IF ~sub_overflows(a, b) THEN a - b
    ELSE IF b >= 0 THEN (a + I32Max + 1) - (b - I32Max - 1)
    ELSE (a - I32Max - 1) - (b + I32Max + 1)

\* The u32 fields width and height are held as the u32 values above are, so
\* that `as i32` and `as u32` leave the held value as it is, and the u32
\* sum (..) as u32 + 1 is wrapping_add.

\* Rect::square: no assertion on side_length.
square(left, top, side_length) ==
    LET half_length == HalfU32(side_length)
    IN  [left |-> wrapping_sub(left, half_length), top |-> wrapping_sub(top, half_length),
         width |-> side_length, height |-> side_length]

\* Whether left - half_length or top - half_length leaves the i32 range.
square_overflows(left, top, side_length) ==
    \/ sub_overflows(left, HalfU32(side_length))
    \/ sub_overflows(top, HalfU32(side_length))

\* Rect::right and Rect::bottom: the sum first, then the - 1.
right(r) == wrapping_sub(wrapping_add(r.left, r.width), 1)
bottom(r) == wrapping_sub(wrapping_add(r.top, r.height), 1)

\* Whether the sum or the - 1 leaves the i32 range.
right_overflows(r) ==
    add_overflows(r.left, r.width) \/ sub_overflows(wrapping_add(r.left, r.width), 1)
bottom_overflows(r) ==
    add_overflows(r.top, r.height) \/ sub_overflows(wrapping_add(r.top, r.height), 1)

Max(a, b) == IF a >= b THEN a ELSE b
Min(a, b) == IF a <= b THEN a ELSE b

\* intersect with the width and height one short.
intersect_Short(r, other) ==
    LET l == Max(r.left, other.left)
        t == Max(r.top, other.top)
        rt == Min(right(r), right(other))
        b == Min(bottom(r), bottom(other))
    IN  IF rt < l \/ b < t THEN None
        ELSE Some([left |-> l, top |-> t,
                   width |-> wrapping_sub(rt, l), height |-> wrapping_sub(b, t)])

\* Rect::intersect
intersect(r, other) ==
    LET l == Max(r.left, other.left)
        t == Max(r.top, other.top)
        rt == Min(right(r), right(other))
        b == Min(bottom(r), bottom(other))
    IN  IF rt < l \/ b < t THEN None
        ELSE Some([left |-> l, top |-> t,
                   width |-> wrapping_add(wrapping_sub(rt, l), 1),
                   height |-> wrapping_add(wrapping_sub(b, t), 1)])

\* Whether intersect panics under overflow checks: in one of the four calls
\* of right and bottom, or in right - left or bottom - top once the
\* rectangles are found to meet.  (right - left) as u32 + 1 cannot overflow
\* on u32 when right - left has not.
intersect_overflows(r, other) ==
    LET l == Max(r.left, other.left)
        t == Max(r.top, other.top)
        rt == Min(right(r), right(other))
        b == Min(bottom(r), bottom(other))
    IN  \/ right_overflows(r) \/ right_overflows(other)
        \/ bottom_overflows(r) \/ bottom_overflows(other)
        \/ (~(rt < l \/ b < t) /\ (sub_overflows(rt, l) \/ sub_overflows(b, t)))

\* Region<i32>::contains
contains(r, x, y) ==
    r.left <= x /\ x <= right(r) /\ r.top <= y /\ y <= bottom(r)

\* Whether contains panics under overflow checks: in right(), reached when
\* left <= x, or in bottom(), reached when also x <= right() and top <= y.
contains_overflows(r, x, y) ==
    /\ r.left <= x
    /\ \/ right_overflows(r)
       \/ (x <= right(r) /\ r.top <= y /\ bottom_overflows(r))

\* The caller's rectangles: r and s, each None until built, the result t of
\* the latest r.intersect(s) (<< >> before the first), and the fault that
\* ended the program, if any.
NoRects == [r |-> None, s |-> None, t |-> << >>, fault |-> "none"]

(* ------------------------------ behaviour ------------------------------ *)

Dims == (0 .. MaxW) \X (0 .. MaxH)

Init ==
    /\ \E d \in Dims : input \in SuppressedRasters(d[1], d[2])
    /\ low_threshold \in Mags
    /\ high_threshold \in Mags
    /\ overflow_checks \in BOOLEAN
    /\ container = "undetermined"
    /\ eager = EagerIdle
    /\ lazy = LazyAbsent
    /\ mono = MonoIdle
    /\ nms = NmsIdle
    /\ rects = NoRects

unchanged_inputs ==
    UNCHANGED <<input, low_threshold, high_threshold, overflow_checks, mono, nms, rects>>

\* A step that comes out as `checked` with the one kind of ImageBuffer and
\* as `linear` with the other, taken by `state`.  The two kinds part only
\* at an access outside the raster, where the checked kind panics: `outside`
\* says that `checked` has done so.  Where the two agree the kind stays as
\* it is, where they differ the build turns out to be of one of the kinds
\* still possible.
StepOfBuild(state, checked, linear, outside) ==
    IF container = "checked" \/ (container = "undetermined" /\ ~outside)
    THEN state = checked /\ container' = container
    ELSE \E other \in {linear} :
            IF container = "linear" \/ checked = other
            THEN state = other /\ container' = container
            ELSE \E kind \in Kinds(container) :
                    /\ state = IF kind = "checked" THEN checked ELSE other
                    /\ container' = kind

\* The caller enters canny.
EagerCall ==
    /\ eager.pc = "idle"
    /\ eager' = canny(eager, input, low_threshold, high_threshold, overflow_checks)
    /\ UNCHANGED <<lazy, container>>
    /\ unchanged_inputs

EagerScan ==
    /\ eager.pc = "scan"
    /\ eager' = HysteresisScan(eager, input, high_threshold)
    /\ UNCHANGED <<lazy, container>>
    /\ unchanged_inputs

EagerPop ==
    /\ eager.pc = "pop"
    /\ \E checked \in { HysteresisPop(eager, input, low_threshold, overflow_checks,
                                       "checked") } :
           StepOfBuild(eager', checked,
                       HysteresisPop(eager, input, low_threshold, overflow_checks, "linear"),
                       checked.fault = "bounds")
    /\ UNCHANGED lazy
    /\ unchanged_inputs

EagerOver == eager.pc \in {"done", "panic"}

\* The caller, once the eager call is over, builds a producer for the same
\* image and thresholds.
LazyNew ==
    /\ EagerOver
    /\ lazy.status = "absent"
    /\ lazy' = CannyPixelsNew(lazy, input, low_threshold, high_threshold, overflow_checks)
    /\ UNCHANGED <<eager, container>>
    /\ unchanged_inputs

\* The caller requests the next coordinate.
LazyNext ==
    /\ lazy.status = "ready"
    /\ lazy.after < MaxExtra
    /\ \E checked \in { CannyPixelsNext(lazy, input, low_threshold, high_threshold,
                                         overflow_checks, "checked") } :
           StepOfBuild(lazy', checked,
                       CannyPixelsNext(lazy, input, low_threshold, high_threshold,
                                       overflow_checks, "linear"),
                       checked.fault = "bounds")
    /\ UNCHANGED eager
    /\ unchanged_inputs

Next ==
    \/ EagerCall
    \/ EagerScan
    \/ EagerPop
    \/ LazyNew
    \/ LazyNext

Spec == Init /\ [][Next]_vars

\* hysteresis applied to one raster under two threshold pairs, the second
\* pairwise at least the first.  The rasters are those on which
\* non_maximum_suppression returns.
InitMono ==
    /\ \E d \in Dims : input \in SuppressedRasters(d[1], d[2])
    /\ overflow_checks \in BOOLEAN
    /\ LoopFault(input.w, input.h, overflow_checks) = "none"
    /\ low_threshold \in Mags
    /\ high_threshold \in Mags
    /\ ThresholdsAccepted(low_threshold, high_threshold)
    /\ container = "undetermined"
    /\ eager = EagerIdle
    /\ lazy = LazyAbsent
    /\ mono = [MonoIdle EXCEPT !.pc = "ready"]
    /\ nms = NmsIdle
    /\ rects = NoRects

unchanged_but_mono ==
    UNCHANGED <<input, low_threshold, high_threshold, overflow_checks, eager, lazy,
                nms, rects>>

\* The trace under (low_threshold, high_threshold).
MonoFirst ==
    /\ mono.pc = "ready"
    /\ \E checked \in { hysteresis(input, low_threshold, high_threshold,
                                    overflow_checks, "checked") } :
           StepOfBuild(mono',
                       [mono EXCEPT !.pc = "first", !.r1 = checked],
                       [mono EXCEPT
                          !.pc = "first",
                          !.r1 = hysteresis(input, low_threshold, high_threshold,
                                            overflow_checks, "linear")],
                       checked.fault = "bounds")
    /\ unchanged_but_mono

\* Once the first trace has returned, the trace under a tighter pair.
MonoSecond ==
    /\ mono.pc = "first"
    /\ mono.r1.pc = "done"
    /\ \E l \in Mags, h \in Mags :
          /\ ThresholdsAccepted(l, h)
          /\ low_threshold <= l
          /\ high_threshold <= h
          /\ \E checked \in { hysteresis(input, l, h, overflow_checks, "checked") } :
                 StepOfBuild(mono',
                             [mono EXCEPT
                                !.pc = "traced", !.low2 = l, !.high2 = h, !.r2 = checked],
                             [mono EXCEPT
                                !.pc = "traced", !.low2 = l, !.high2 = h,
                                !.r2 = hysteresis(input, l, h, overflow_checks, "linear")],
                             checked.fault = "bounds")
    /\ unchanged_but_mono

NextMono ==
    \/ MonoFirst
    \/ MonoSecond

SpecMono == InitMono /\ [][NextMono]_vars

\* A raster of no pixels, for the runs in which canny is not called.
NoRaster == [w |-> 0, h |-> 0, pix |-> from_pixel(0, 0, 0)]

unchanged_trace ==
    UNCHANGED <<input, low_threshold, high_threshold, overflow_checks, container,
                eager, lazy, mono>>

NmsDims == (3 .. MaxNmsDim) \X (3 .. MaxNmsDim)

\* canny or CannyPixels::new with the two Sobel rasters computed and g, the
\* hypot of the two, built from them.
InitNms ==
    /\ input = NoRaster
    /\ low_threshold = 0
    /\ high_threshold = 0
    /\ overflow_checks = TRUE
    /\ container = "undetermined"
    /\ eager = EagerIdle
    /\ lazy = LazyAbsent
    /\ mono = MonoIdle
    /\ rects = NoRects
    /\ \E d \in NmsDims :
         \E S \in LitSets(d[1], d[2]) :
           \E gr \in [S -> Gradients] :
              LET grad == GradientRasters(d[1], d[2], gr) IN
              nms = [NmsIdle EXCEPT
                       !.pc = "ready", !.gx = grad.gx, !.gy = grad.gy,
                       !.g = MagnitudeRaster(d[1], d[2], grad.gx, grad.gy)]

\* canny or CannyPixels::new calls non_maximum_suppression with the
\* magnitudes and the gradients behind them.
NmsCall ==
    /\ nms.pc = "ready"
    /\ IF LoopFault(nms.g.w, nms.g.h, overflow_checks) # "none"
       THEN nms' = [nms EXCEPT !.pc = "panic"]
       ELSE \E angle \in ClampedAngles(nms.g, nms.gx, nms.gy) :
               nms' = [nms EXCEPT
                         !.pc = "done", !.angle = angle,
                         !.out = non_maximum_suppression(nms.g, angle)]
    /\ UNCHANGED rects
    /\ unchanged_trace

NextNms == NmsCall

SpecNms == InitNms /\ [][NextNms]_vars

\* The corners tried: those around the origin, and the largest i32.
RectCoords == (-MaxCoord .. MaxCoord) \cup {I32Max}

Sides == 0 .. MaxSide

InitRect ==
    /\ input = NoRaster
    /\ low_threshold = 0
    /\ high_threshold = 0
    /\ overflow_checks \in BOOLEAN
    /\ container = "undetermined"
    /\ eager = EagerIdle
    /\ lazy = LazyAbsent
    /\ mono = MonoIdle
    /\ nms = NmsIdle
    /\ rects = NoRects

\* The rectangle the caller builds next: r, then s.
NextSlot == IF rects.r = None THEN "r" ELSE "s"

\* The caller builds r or s with Rect::at(x, y).of_size(width, height); a
\* failed assertion ends the program.
RectOfSize ==
    /\ rects.fault = "none"
    /\ rects.s = None
    /\ \E x \in RectCoords, y \in RectCoords, width \in Sides, height \in Sides :
          rects' = IF of_size_accepts(width, height)
                   THEN [rects EXCEPT ![NextSlot] = Some(of_size(at(x, y), width, height))]
                   ELSE [rects EXCEPT !.fault = "assert"]
    /\ UNCHANGED nms
    /\ unchanged_trace

\* The caller builds r or s with Rect::square.
RectSquare ==
    /\ rects.fault = "none"
    /\ rects.s = None
    /\ \E left \in RectCoords, top \in RectCoords, side_length \in Sides :
          rects' = IF overflow_checks /\ square_overflows(left, top, side_length)
                   THEN [rects EXCEPT !.fault = "overflow"]
                   ELSE [rects EXCEPT ![NextSlot] = Some(square(left, top, side_length))]
    /\ UNCHANGED nms
    /\ unchanged_trace

\* The caller computes r.intersect(s), first on the rectangles built and
\* then with r replaced by the rectangle the previous intersection gave.
RectIntersect ==
    /\ rects.fault = "none"
    /\ rects.r # None
    /\ rects.s # None
    /\ \/ /\ rects.t = << >>
          /\ rects' = IF overflow_checks /\ intersect_overflows(rects.r[1], rects.s[1])
                      THEN [rects EXCEPT !.fault = "overflow"]
                      ELSE [rects EXCEPT !.t = << intersect(rects.r[1], rects.s[1]) >>]
       \/ /\ rects.t # << >>
          /\ rects.t[1] # None
          /\ rects' = IF overflow_checks /\ intersect_overflows(rects.t[1][1], rects.s[1])
                      THEN [rects EXCEPT !.fault = "overflow"]
                      ELSE [rects EXCEPT
                              !.r = rects.t[1],
                              !.t = << intersect(rects.t[1][1], rects.s[1]) >>]
    /\ UNCHANGED nms
    /\ unchanged_trace

NextRect ==
    \/ RectOfSize
    \/ RectSquare
    \/ RectIntersect

SpecRect == InitRect /\ [][NextRect]_vars

(* ------------------------------- claims -------------------------------- *)

\* The coordinates holding the foreground value in a raster of samples.
Foreground(img) == { p \in DOMAIN img : img[p] = max_brightness }

Elements(seq) == { seq[i] : i \in DOMAIN seq }

NoDuplicates(seq) == \A i, j \in DOMAIN seq : seq[i] = seq[j] => i = j

RECURSIVE Concat(_)
Concat(ss) == IF ss = << >> THEN << >> ELSE Head(ss) \o Concat(Tail(ss))

\* The pixels in the order the eager form marked them.
Marked(e) == Concat(e.comps)

EagerReturned == eager.pc = "done"

LazyDrained == lazy.status = "ready" /\ lazy.last = "none"

ProperRaster == input.w >= 3 /\ input.h >= 3

ValidThresholds == 0 <= low_threshold /\ low_threshold <= high_threshold

OnBorder(p) ==
    p[1] = 0 \/ p[1] = input.w - 1 \/ p[2] = 0 \/ p[2] = input.h - 1

ZeroRaster == \A p \in DOMAIN input.pix : input.pix[p] = 0

\* C1: once canny has returned and the producer has reported exhaustion, the
\* coordinates the producer yielded are exactly the foreground pixels of the
\* eager output, and none was yielded twice.
C1_EagerLazySameSet ==
    (EagerReturned /\ LazyDrained) =>
        /\ Elements(lazy.yielded) = Foreground(eager.out)
        /\ NoDuplicates(lazy.yielded)

C1_Witness ==
    /\ EagerReturned
    /\ LazyDrained
    /\ Len(lazy.yielded) >= 2

\* C2: once canny has returned and the producer has reported exhaustion, the
\* k-th coordinate the producer yielded is the k-th pixel the eager form
\* marked.  next() traces a seed's whole group before it returns and hands
\* the group out from the back of self.pixels, so a seed with one linked
\* neighbour is yielded after that neighbour.
C2_SameOrder ==
    (EagerReturned /\ LazyDrained) => lazy.yielded = Marked(eager)

\* C3: on a raster of at least 3 x 3 with 0 <= low <= high, neither form
\* faults in its trace and every neighbour coordinate computed for a popped
\* pixel lies inside the raster.
C3_TraceNeverFaults ==
    (ProperRaster /\ ValidThresholds) =>
        /\ eager.fault = "none"
        /\ lazy.fault = "none"
        /\ \A k \in DOMAIN eager.nbrs : InBounds(input, eager.nbrs[k])

\* C4: in the raster canny returns, every pixel of the outer ring holds the
\* background value.
C4_BorderBackground ==
    EagerReturned =>
        \A p \in DOMAIN eager.out : OnBorder(p) => eager.out[p] = min_brightness

C4_Witness ==
    /\ EagerReturned
    /\ ProperRaster
    /\ Foreground(eager.out) # {}

\* C5: on a raster of zero magnitude the eager form, under every valid
\* threshold pair, returns and marks no pixel.
C5_ZeroRasterAllBackground ==
    (ProperRaster /\ ZeroRaster /\ ValidThresholds) =>
        /\ eager.pc # "panic"
        /\ Foreground(eager.out) = {}

\* C6: when hysteresis returns under both threshold pairs, the tighter pair
\* gives no more foreground pixels than the looser one.
C6_CountMonotone ==
    (mono.pc = "traced" /\ mono.r1.pc = "done" /\ mono.r2.pc = "done") =>
        Cardinality(Foreground(mono.r2.out)) <= Cardinality(Foreground(mono.r1.out))

C6_Witness ==
    /\ mono.pc = "traced"
    /\ mono.r1.pc = "done"
    /\ mono.r2.pc = "done"
    /\ Foreground(mono.r2.out) # {}
    /\ Cardinality(Foreground(mono.r2.out)) < Cardinality(Foreground(mono.r1.out))

\* C7: with high < low both entry points panic on the assertion, before any
\* raster or producer state exists; with high >= low the assertion passes.
C7_ThresholdAssertion ==
    /\ eager.pc # "idle" =>
          IF high_threshold < low_threshold
          THEN eager.pc = "panic" /\ eager.fault = "assert"
               /\ eager.out = << >> /\ eager.comps = << >>
          ELSE eager.fault # "assert"
    /\ lazy.status # "absent" =>
          IF high_threshold < low_threshold
          THEN lazy.status = "panic" /\ lazy.fault = "assert"
               /\ lazy.working_image = << >> /\ lazy.yielded = << >>
          ELSE lazy.fault # "assert"

C7_Witness ==
    /\ high_threshold < low_threshold
    /\ eager.pc = "panic"
    /\ lazy.status = "panic"

SmallRaster == input.w < 3 \/ input.h < 3

\* C8 as stated: on a raster with width < 3 or height < 3 the eager call and
\* the construction of the producer fail.
C8_SmallRasterFails ==
    SmallRaster =>
        /\ eager.pc # "idle" => eager.pc = "panic"
        /\ lazy.status # "absent" => lazy.status = "panic"

\* C8 amended: on a raster with width < 3 or height < 3, both at least 1, and
\* accepted thresholds, neither form fails: canny returns an all-background
\* raster of the input's dimensions and the producer is built and yields
\* nothing.  With overflow checks a height of 0, or a width of 0 with a
\* height of at least 3, panics on the subtraction in the loop bound.
C8_SmallRasterDegenerate ==
    (SmallRaster /\ ThresholdsAccepted(low_threshold, high_threshold)) =>
        /\ (input.w >= 1 /\ input.h >= 1) =>
              /\ eager.pc \in {"idle", "scan", "done"}
              /\ eager.pc # "idle" =>
                    eager.out = from_pixel(input.w, input.h, min_brightness)
              /\ lazy.status \in {"absent", "ready"}
              /\ lazy.yielded = << >>
              /\ lazy.last \in {"start", "none"}
        /\ (overflow_checks /\ (input.h = 0 \/ (input.w = 0 /\ input.h >= 3))) =>
              /\ eager.pc # "idle" => eager.pc = "panic" /\ eager.fault = "overflow"
              /\ lazy.status # "absent" =>
                    lazy.status = "panic" /\ lazy.fault = "overflow"

C8_Witness ==
    /\ SmallRaster
    /\ input.w >= 1
    /\ input.h >= 1
    /\ EagerReturned
    /\ LazyDrained
    /\ lazy.after >= 1

\* C9: on a raster of at least 3 x 3 under valid thresholds, a producer
\* never dies in a request (each request yields or reports exhaustion), it
\* yields at most width * height coordinates, and every request after one
\* that reported exhaustion reports exhaustion and yields nothing.
C9_ExhaustsAndStaysExhausted ==
    /\ []((ProperRaster /\ ValidThresholds) =>
            /\ lazy.status # "panic"
            /\ Len(lazy.yielded) <= input.w * input.h)
    /\ [][(ProperRaster /\ ValidThresholds /\ lazy.last = "none") =>
             (lazy'.last = "none" /\ lazy'.yielded = lazy.yielded)]_vars

\* The six offsets of the propagation rule.
SixOffsets == { <<1, 0>>, <<1, 1>>, <<0, 1>>, <<-1, -1>>, <<-1, 0>>, <<-1, 1>> }

\* The interior pixels of magnitude at least high.
Seeds(img, high) == { p \in Interior(img.w, img.h) : img.pix[p] >= high }

\* S with every pixel of magnitude at least low at one of the six offsets
\* of a pixel of S.
Grow(img, low, S) ==
    S \cup { q \in { << p[1] + d[1], p[2] + d[2] >> : p \in S, d \in SixOffsets } :
               q \in DOMAIN img.pix /\ img.pix[q] >= low }

\* The least set that holds the seeds and is closed under the rule.
RECURSIVE LeastClosed(_, _, _)
LeastClosed(img, low, S) ==
    IF Grow(img, low, S) = S THEN S ELSE LeastClosed(img, low, Grow(img, low, S))

BucketTable(bucket, x, y) ==
    IF bucket = 0 THEN { <<x - 1, y>>, <<x + 1, y>> }
    ELSE IF bucket = 45 THEN { <<x + 1, y + 1>>, <<x - 1, y - 1>> }
    ELSE IF bucket = 90 THEN { <<x, y - 1>>, <<x, y + 1>> }
    ELSE { <<x - 1, y + 1>>, <<x + 1, y - 1>> }

\* The direction bucket assigned to a pixel of the raster suppressed.
BucketAt(p) == nms.angle[p]

OnRing(g, p) == p[1] = 0 \/ p[1] = g.w - 1 \/ p[2] = 0 \/ p[2] = g.h - 1

\* The reference: 0 on the outer ring, and inside the magnitude where it is
\* at least both comparison neighbours' and 0 where it is not.
NmsReference(g) ==
    [p \in DOMAIN g.pix |->
        IF OnRing(g, p) THEN 0
        ELSE IF \A q \in BucketTable(BucketAt(p), p[1], p[2]) : g.pix[p] >= g.pix[q]
             THEN g.pix[p]
        ELSE 0]

\* An interior pixel whose magnitude equals one comparison neighbour's and
\* is not below the other's.
TiedMaximum(g, p) ==
    /\ ~OnRing(g, p)
    /\ \E q \in BucketTable(BucketAt(p), p[1], p[2]) : g.pix[p] = g.pix[q]
    /\ \A q \in BucketTable(BucketAt(p), p[1], p[2]) : g.pix[p] >= g.pix[q]

\* C11: on a raster of at least 3 x 3 the output of non_maximum_suppression
\* is the reference raster, and a pixel that ties with one comparison
\* neighbour and is not below the other keeps its magnitude.
C11_NmsMatchesReference ==
    (nms.pc = "done" /\ nms.g.w >= 3 /\ nms.g.h >= 3) =>
        /\ nms.out = NmsReference(nms.g)
        /\ \A p \in DOMAIN nms.g.pix : TiedMaximum(nms.g, p) => nms.out[p] = nms.g.pix[p]

C11_Witness ==
    /\ nms.pc = "done"
    /\ \E p \in DOMAIN nms.g.pix :
          /\ TiedMaximum(nms.g, p)
          /\ nms.g.pix[p] > 0
          /\ BucketAt(p) = 135
          /\ nms.out[p] = nms.g.pix[p]

\* The rectangles the caller holds: r, s and the latest intersection.
HeldRects ==
    { rects.r[i] : i \in DOMAIN rects.r } \cup { rects.s[i] : i \in DOMAIN rects.s }
        \cup (IF rects.t = << >> THEN {}
              ELSE { rects.t[1][i] : i \in DOMAIN rects.t[1] })

\* C12: every Rect obtained through of_size, square and intersect has width
\* and height of at least 1; asking for a width or height of 0 ends the
\* program instead of giving a Rect.
C12_RectsNonEmpty ==
    \A q \in HeldRects : ULess(0, q.width) /\ ULess(0, q.height)

NonEmpty(q) == ULess(0, q.width) /\ ULess(0, q.height)

\* The integer points any rectangle built here can contain.
Points ==
    (-(MaxCoord + MaxSide) .. (MaxCoord + MaxSide))
        \X (-(MaxCoord + MaxSide) .. (MaxCoord + MaxSide))

Common(a, b) == { p \in Points : contains(a, p[1], p[2]) /\ contains(b, p[1], p[2]) }

\* A rectangle with its corner around the origin, whose right and bottom
\* are far from the ends of i32.
Bounded(q) ==
    /\ q.left \in -(MaxCoord + MaxSide) .. (MaxCoord + MaxSide)
    /\ q.top \in -(MaxCoord + MaxSide) .. (MaxCoord + MaxSide)

IntersectTaken ==
    /\ rects.t # << >>
    /\ NonEmpty(rects.r[1])
    /\ NonEmpty(rects.s[1])
    /\ Bounded(rects.r[1])
    /\ Bounded(rects.s[1])

\* C13: for rectangles of non-zero width and height, r.intersect(s) is None
\* exactly when no integer point lies in both, and otherwise Some(t) with t
\* containing exactly the points both contain; and r.intersect(s) equals
\* s.intersect(r).
C13_IntersectIsCommonPoints ==
    IntersectTaken =>
        /\ (rects.t[1] = None) <=> (Common(rects.r[1], rects.s[1]) = {})
        /\ rects.t[1] # None =>
              { p \in Points : contains(rects.t[1][1], p[1], p[2]) }
                  = Common(rects.r[1], rects.s[1])
        /\ rects.t[1] = intersect(rects.s[1], rects.r[1])
        /\ \A p \in Points :
              /\ ~contains_overflows(rects.r[1], p[1], p[2])
              /\ ~contains_overflows(rects.s[1], p[1], p[2])

C13_Witness ==
    /\ IntersectTaken
    /\ rects.t[1] # None
    /\ rects.t[1] # rects.r
    /\ rects.t[1] # rects.s
    /\ rects.t[1][1].width >= 2

\* A request that returned a coordinate: the step from one pause of a
\* producer to the next in which yielded grows.
YieldingRequest ==
    /\ lazy.status = "ready"
    /\ lazy'.status = "ready"
    /\ Len(lazy'.yielded) = Len(lazy.yielded) + 1

\* The pixels marked in the working map during the step.
NewlyMarked == Foreground(lazy'.working_image) \ Foreground(lazy.working_image)

SkippedOffsets == { <<0, -1>>, <<1, -1>> }

Shift(p, d) == << p[1] + d[1], p[2] + d[2] >>

\* q is one of the six offsets of a pixel of S.
Reached(S, q) == \E p \in S, d \in SixOffsets : q = Shift(p, d)

\* q lies directly north or north-east of a pixel of S.
NorthOf(S, q) == \E p \in S, d \in SkippedOffsets : q = Shift(p, d)

\* Pixels of magnitude in [low, high) that lie north or north-east of a
\* pixel of S and at none of the six offsets of any pixel of S.
Bypassed(S) ==
    { q \in { Shift(p, d) : p \in S, d \in SkippedOffsets } :
        /\ q \in DOMAIN input.pix
        /\ low_threshold <= input.pix[q]
        /\ input.pix[q] < high_threshold
        /\ NorthOf(S, q)
        /\ ~Reached(S, q) }

\* C15: the neighbours examined for a popped pixel (x, y) are the six
\* offsets (x+1,y), (x+1,y+1), (x,y+1), (x-1,y-1), (x-1,y), (x-1,y+1), never
\* (x,y-1) or (x+1,y-1); and in the output of either form a pixel with
\* low <= magnitude < high that lies north or north-east of edge pixels and
\* at none of the six offsets of any edge pixel is background.
C15_SixOffsetsOnly ==
    /\ eager.nbrs # << >> =>
          LET p == << eager.nbrs[1][1] - 1, eager.nbrs[1][2] >> IN
          /\ Len(eager.nbrs) = 6
          /\ \A d \in SixOffsets :
                \E k \in DOMAIN eager.nbrs : eager.nbrs[k] = Shift(p, d)
          /\ \A k \in DOMAIN eager.nbrs, d \in SkippedOffsets : eager.nbrs[k] # Shift(p, d)
    /\ EagerReturned =>
          \A q \in Bypassed(Foreground(eager.out)) : eager.out[q] = min_brightness
    /\ LazyDrained =>
          \A q \in Bypassed(Foreground(lazy.working_image)) :
              lazy.working_image[q] = min_brightness

C15_Witness ==
    /\ EagerReturned
    /\ LazyDrained
    /\ \E q \in Bypassed(Foreground(eager.out)) :
          /\ q \in Interior(input.w, input.h)
          /\ input.pix[q] >= 1
          /\ eager.out[q] = min_brightness
          /\ lazy.working_image[q] = min_brightness

\* The samples that the coordinates of a sequence name.
Samples(seq) == { PixelAt(input, seq[i], "linear") : i \in DOMAIN seq }

\* C16: during one eager trace a pixel's output sample changes at most once,
\* from background to foreground; a pixel is pushed on the stack exactly when
\* it becomes foreground, so no pixel is pushed twice and the stack never
\* holds more than width * height entries; and on every raster of at least
\* 3 x 3 under a valid threshold pair the trace runs to its end, never
\* stopping in a fault.
C16_PushedOnceAndTerminates ==
    /\ []((ProperRaster /\ ValidThresholds) =>
            /\ NoDuplicates(Marked(eager))
            /\ NoDuplicates(eager.edges)
            /\ Samples(eager.edges) \subseteq Elements(Marked(eager))
            /\ Len(eager.edges) <= input.w * input.h
            /\ eager.pc # "panic")
    /\ [][(ProperRaster /\ ValidThresholds /\ EagerRunning(eager)) =>
            /\ \A p \in DOMAIN eager.out :
                  eager'.out[p] # eager.out[p] =>
                      (eager.out[p] = min_brightness /\ eager'.out[p] = max_brightness)
            /\ Elements(Marked(eager')) \ Elements(Marked(eager))
                  = Foreground(eager'.out) \ Foreground(eager.out)]_vars

\* A lazy producer between two requests.
LazyPaused == lazy.status = "ready"

\* C17: at every pause between requests the pixels marked in the working map
\* are the coordinates already yielded together with those waiting in
\* self.pixels: no coordinate is in both, none appears twice in either, and
\* no marked pixel is in neither.
C17_MarkedIsYieldedPlusPending ==
    LazyPaused =>
        /\ Foreground(lazy.working_image) = Elements(lazy.yielded) \cup Elements(lazy.pixels)
        /\ Elements(lazy.yielded) \cap Elements(lazy.pixels) = {}
        /\ NoDuplicates(lazy.pixels)
        /\ NoDuplicates(lazy.yielded)
        /\ Cardinality(Foreground(lazy.working_image))
              = Len(lazy.yielded) + Len(lazy.pixels)

C17_Witness ==
    /\ LazyPaused
    /\ lazy.yielded # << >>
    /\ lazy.pixels # << >>

====
